---- MODULE Spec2Model ----
(***************************************************************************)
(* A model of sparc.client.services.metadata.MetadataService: the API key  *)
(* accessors, the two HTTP helpers getURL / postURL with their retrying     *)
(* session, and the two wrappers list_datasets / search_datasets.          *)
(*                                                                         *)
(* Text is modelled as a sequence of tokens (a URL, a JSON document, the    *)
(* decimal digits of an integer), so that concatenation is \o and parsing   *)
(* and formatting are computed, not assumed.  A parsed JSON object is a     *)
(* sequence of <<key, object>> members.                                    *)
(*                                                                         *)
(* requests / urllib3 are the collaborators the source configures; their   *)
(* behaviour under that configuration (Retry(total, status_forcelist),      *)
(* HTTPAdapter mounted on a prefix) is modelled by RunSession.              *)
(***************************************************************************)
EXTENDS Integers, Sequences, FiniteSets, TLC

VARIABLES
    scicrunch_api_key,  \* instance attribute, per client instance
    profile_name,       \* instance attribute, per client instance
    host_api,           \* instance attribute, per client instance
    algolia_api,        \* instance attribute, per client instance
    es_success,         \* instance attribute created by getURL / postURL
    default_headers,    \* CLASS attribute: one dict shared by all instances
    given_key,          \* history: the key each instance was last given
    call                \* the most recent operation: arguments, requests, outcome

vars == <<scicrunch_api_key, profile_name, host_api, algolia_api, es_success,
          default_headers, given_key, call>>

\* Everything an instance or the class holds between calls.
ClientState == <<scicrunch_api_key, profile_name, host_api, algolia_api,
                 es_success, default_headers>>

----------------------------------------------------------------------------
\* Bounds of the model.

\* Largest magnitude of the limit / offset arguments tried.
MaxArg == 12

----------------------------------------------------------------------------
\* Program constants.

\* Mutant: two retries fewer.
RetryTotalFour == 6 - 2

RetryTotal == 6

StatusForcelist == {404, 413, 429, 500, 502, 503, 504}

MountPrefix == "https://"

HostApi == <<"https://", "api.scicrunch.io", "/elastic/v1">>

AlgoliaApi == <<"https://", "api.scicrunch.io", "/elastic/v1", "/SPARC_Algolia_pr", "/_search">>

TestBackendMarker == "pennsieve"

\* Mutant: another default query.
DefaultQueryMatchNone == <<"{", "query", ":", "{", "match_none", ":", "{", "}", "}", "}">>

DefaultQuery == <<"{", "query", ":", "{", "match_all", ":", "{", "}", "}", "}">>

ClassHeaders ==
    [h \in {"Content-Type", "Accept"} |->
        IF h = "Content-Type" THEN "application/json"
                              ELSE "application/json; charset=utf-8"]

\* Python's None where a key or a profile name is expected.
None == "<None>"

\* An instance attribute that has not been assigned yet.
Unset == -1

Instances == {"a", "b"}

----------------------------------------------------------------------------
\* Text: integers and JSON.

Digit == <<"0", "1", "2", "3", "4", "5", "6", "7", "8", "9">>

RECURSIVE Digits(_)
\* The decimal digits of n >= 0, most significant first.
Digits(n) ==
    IF n < 10 THEN <<Digit[n + 1]>>
    ELSE Digits(n \div 10) \o <<Digit[(n % 10) + 1]>>

\* str(n) for a Python int.
Str(n) == IF n < 0 THEN <<"-">> \o Digits(0 - n) ELSE Digits(n)

Punctuation == {"{", "}", ":", ","}

ParseFail == [ok |-> FALSE, val |-> <<>>, pos |-> 0]

RECURSIVE ParseObject(_, _)
RECURSIVE ParseMembers(_, _, _)

\* One JSON object starting at toks[pos]: "{" "}" or "{" members "}".
ParseObject(toks, pos) ==
    IF pos + 1 > Len(toks) \/ toks[pos] # "{" THEN ParseFail
    ELSE IF toks[pos + 1] = "}" THEN [ok |-> TRUE, val |-> <<>>, pos |-> pos + 2]
    ELSE ParseMembers(toks, pos + 1, <<>>)

\* key ":" object, then "," and more members, or the closing "}".
ParseMembers(toks, pos, acc) ==
    IF pos + 2 > Len(toks) \/ toks[pos] \in Punctuation \/ toks[pos + 1] # ":"
    THEN ParseFail
    ELSE LET r == ParseObject(toks, pos + 2) IN
         IF ~r.ok \/ r.pos > Len(toks) THEN ParseFail
         ELSE LET acc2 == Append(acc, <<toks[pos], r.val>>) IN
              IF toks[r.pos] = "," THEN ParseMembers(toks, r.pos + 1, acc2)
              ELSE IF toks[r.pos] = "}"
                   THEN [ok |-> TRUE, val |-> acc2, pos |-> r.pos + 1]
                   ELSE ParseFail

\* json.loads / Response.json(): the whole text must be one JSON object.
Loads(toks) ==
    LET r == ParseObject(toks, 1) IN
    IF r.ok /\ r.pos = Len(toks) + 1 THEN r ELSE ParseFail

----------------------------------------------------------------------------
\* The transport: what the remote end does with one request.

Outcome(kind, status, body) == [kind |-> kind, status |-> status, body |-> body]

ConnectErrors == {"connect_error", "connect_timeout"}

ReadErrors == {"read_timeout", "conn_reset"}

\* urllib3's Retry.DEFAULT_ALLOWED_METHODS: the source passes no
\* allowed_methods, so status retries and read-error retries apply to these.
AllowedMethods == {"DELETE", "GET", "HEAD", "OPTIONS", "PUT", "TRACE"}

\* The Retry configuration of the adapter the session picks for url: the
\* mounted adapter for the mount prefix, requests' own default adapter
\* (no retries) for plain http, none for anything else.
AdapterFor(url) ==
    IF Len(url) > 0 /\ url[1] = MountPrefix
    THEN [found |-> TRUE, total |-> RetryTotal, read |-> TRUE,
          forcelist |-> StatusForcelist]
    ELSE IF Len(url) > 0 /\ url[1] = "http://"
    THEN [found |-> TRUE, total |-> 0, read |-> FALSE, forcelist |-> {}]
    ELSE [found |-> FALSE, total |-> 0, read |-> FALSE, forcelist |-> {}]

NoResponse == Outcome("none", 0, <<>>)

Again == [again |-> TRUE, exc |-> "", resp |-> NoResponse]

Raise(e) == [again |-> FALSE, exc |-> e, resp |-> NoResponse]

Respond(o) == [again |-> FALSE, exc |-> "", resp |-> o]

\* Mutant: the forcelist applies to every method.
IsRetryAnyMethod(method, retry, status) == status \in retry.forcelist

\* Retry.is_retry: a response is retried on its status only for the
\* allowed methods and the statuses of the forcelist.
IsRetry(method, retry, status) ==
    method \in AllowedMethods /\ status \in retry.forcelist

\* One request of a session call got outcome o with `total` retries left
\* (HTTPConnectionPool.urlopen with Retry.increment, then HTTPAdapter.send's
\* mapping of urllib3's errors): the request is made again, or the call ends
\* with the response or with an exception of requests.
Urlopen(method, retry, o, total) ==
    LET exhausted == total - 1 < 0 IN
    IF o.kind = "response" THEN
        IF IsRetry(method, retry, o.status)
        THEN IF exhausted THEN Raise("RetryError") ELSE Again
        ELSE Respond(o)
    ELSE IF o.kind \in ConnectErrors THEN
        IF exhausted
        THEN Raise(IF o.kind = "connect_timeout" THEN "ConnectTimeout"
                                                 ELSE "ConnectionError")
        ELSE Again
    ELSE \* a read error: raised as it is unless the method may be retried
        IF ~retry.read \/ method \notin AllowedMethods
        THEN Raise(IF o.kind = "read_timeout" THEN "ReadTimeout"
                                              ELSE "ConnectionError")
        ELSE IF exhausted THEN Raise("ConnectionError") ELSE Again

\* The classes an exception is an instance of.
Bases(exc) ==
    CASE exc = "HTTPError" -> {"HTTPError", "RequestException"}
      [] exc = "ConnectionError" -> {"ConnectionError", "RequestException"}
      [] exc = "ConnectTimeout" ->
            {"ConnectTimeout", "ConnectionError", "Timeout", "RequestException"}
      [] exc = "ReadTimeout" -> {"ReadTimeout", "Timeout", "RequestException"}
      [] exc = "RetryError" -> {"RetryError", "RequestException"}
      [] exc = "InvalidSchema" -> {"InvalidSchema", "RequestException", "ValueError"}
      [] exc = "JSONDecodeError" ->
            {"JSONDecodeError", "InvalidJSONError", "RequestException", "ValueError"}
      [] OTHER -> {exc, "Exception"}

\* The except clauses around the HTTP call, in order, with what each logs.
ExceptClauses ==
    << <<"HTTPError", "Retrieving URL - HTTP Error">>,
       <<"ConnectionError", "Retrieving URL - Error Connecting">>,
       <<"Timeout", "Retrieving URL - Timeout Error">>,
       <<"RequestException", "Retrieving URL - Something Else">> >>

\* Mutant: the clause for RequestException is missing.
CaughtWithoutLastClause(exc) ==
    \E n \in 1..(Len(ExceptClauses) - 1) : ExceptClauses[n][1] \in Bases(exc)

\* Whether one of the except clauses catches exc.
Caught(exc) == \E n \in DOMAIN ExceptClauses : ExceptClauses[n][1] \in Bases(exc)

\* The message of the first clause that catches exc.
HandlerLog(exc) ==
    LET n == CHOOSE m \in DOMAIN ExceptClauses :
                 /\ ExceptClauses[m][1] \in Bases(exc)
                 /\ \A j \in 1..(m - 1) : ExceptClauses[j][1] \notin Bases(exc)
    IN ExceptClauses[n][2]

----------------------------------------------------------------------------
\* getURL and postURL.

NoHeaders == [given |-> FALSE, map |-> ClassHeaders]

Headers(map) == [given |-> TRUE, map |-> map]

NoJson == [bound |-> FALSE, val |-> <<>>]

Request(method, url, headers, json) ==
    [method |-> method, url |-> url, headers |-> headers, json |-> json]

NoRequest == Request("", <<>>, NoHeaders, NoJson)

\* A call of getURL / postURL on its way: the request, the adapter's Retry,
\* the number of requests handed to the transport so far, the outcome of the
\* latest answered one, whether every earlier one was answered with a status
\* of the forcelist, and how the call ended (once it has): err is the
\* exception raised inside the try statement, exc the one that left the call.
Progress(req, logs) ==
    [req |-> req, retry |-> AdapterFor(req.url), sent |-> 0, last |-> NoResponse,
     prior |-> TRUE, status |-> "sending", err |-> "", exc |-> "",
     result |-> <<>>, logs |-> logs, es |-> 1]

\* From the end of the HTTP call to the return statement: the except
\* clauses, then `url_result.json() if self.es_success == 1 else {}`, which
\* is evaluated after the try statement.  es is self.es_success.
Finish(p, end) ==
    IF end.exc # "" THEN
        IF Caught(end.exc)
        THEN [p EXCEPT !.status = "returned", !.err = end.exc, !.es = 0,
                       !.logs = Append(p.logs, HandlerLog(end.exc))]
        ELSE [p EXCEPT !.status = "raised", !.err = end.exc, !.exc = end.exc]
    ELSE LET j == Loads(end.resp.body) IN
         IF j.ok THEN [p EXCEPT !.status = "returned", !.result = j.val]
         ELSE [p EXCEPT !.status = "raised", !.exc = "JSONDecodeError"]

\* url_session.get / url_session.post: the first request goes out, unless
\* no adapter serves the URL.
Send(p) ==
    IF p.retry.found THEN [p EXCEPT !.sent = 1]
    ELSE Finish(p, Raise("InvalidSchema"))

\* getURL(url, headers) up to its first request; headers.given is
\* `headers != "NONE"`.
GetURLCall(url, headers) ==
    Send(Progress(Request("GET", url, headers, NoJson), <<>>))

BodyDict(val) == [isDict |-> TRUE, val |-> val, toks |-> <<>>]

BodyStr(toks) == [isDict |-> FALSE, val |-> <<>>, toks |-> toks]

\* The first try statement of postURL: body_json is bound unless
\* json.loads raises, which the bare except logs.
ReadBody(body) ==
    IF body.isDict THEN [bound |-> TRUE, val |-> body.val]
    ELSE LET j == Loads(body.toks) IN [bound |-> j.ok, val |-> j.val]

BodyLog == "Elasticsearch query body can not be read"

\* postURL(url, body, headers) up to its first request.  With body_json
\* unbound, evaluating the arguments of url_session.post raises
\* UnboundLocalError inside the second try statement, before any request.
PostURLCall(url, body, headers) ==
    LET json == ReadBody(body) IN
    IF json.bound
    THEN Send(Progress(Request("POST", url, headers, json), <<>>))
    ELSE Finish(Progress(NoRequest, <<BodyLog>>), Raise("UnboundLocalError"))

\* The transport answers the outstanding request of p with outcome o.
Answer(p, o) ==
    LET end == Urlopen(p.req.method, p.retry, o, p.retry.total - (p.sent - 1))
        q == [p EXCEPT !.last = o,
                       !.prior = /\ p.prior
                                 /\ \/ p.sent = 1
                                    \/ /\ p.last.kind = "response"
                                       /\ p.last.status \in StatusForcelist]
    IN IF end.again THEN [q EXCEPT !.sent = p.sent + 1] ELSE Finish(q, end)

----------------------------------------------------------------------------
\* list_datasets and search_datasets.

\* Mutant: a key already in the shared dict is kept.
RequestHeadersKeep(dh, key) ==
    [h \in (DOMAIN dh) \cup {"apikey"} |-> IF h \in DOMAIN dh THEN dh[h] ELSE key]

\* request_headers = self.default_headers; request_headers["apikey"] = key.
\* request_headers is the class's dict itself, not a copy.
RequestHeaders(dh, key) ==
    [h \in (DOMAIN dh) \cup {"apikey"} |-> IF h = "apikey" THEN key ELSE dh[h]]

\* `marker in url`, on tokens.
Contains(url, marker) == \E n \in DOMAIN url : url[n] = marker

\* Mutant: limit and offset change places.
ListUrlSwapped(api, limit, offset) ==
    IF Contains(api, TestBackendMarker) THEN api
    ELSE api \o <<"?">> \o <<"from=">> \o Str(limit) \o <<"&size=">> \o Str(offset)

ListUrl(api, limit, offset) ==
    IF Contains(api, TestBackendMarker) THEN api
    ELSE api \o <<"?">> \o <<"from=">> \o Str(offset) \o <<"&size=">> \o Str(limit)

NoQuery == [given |-> FALSE, body |-> BodyStr(<<>>)]

Query(body) == [given |-> TRUE, body |-> body]

\* The value of search_datasets' query parameter: the default when none
\* is passed.
QueryBody(query) == IF query.given THEN query.body ELSE BodyStr(DefaultQuery)

----------------------------------------------------------------------------
\* Construction and the key accessors.

NoConfig == [given |-> FALSE, scicrunch_api_key |-> None, pennsieve_profile_name |-> None]

Config(key, profile) ==
    [given |-> TRUE, scicrunch_api_key |-> key, pennsieve_profile_name |-> profile]

\* Mutant: the key is assigned on the class, so every instance sees it.
StoreKeyOnClass(keys, i, api_key) == [j \in DOMAIN keys |-> api_key]

\* set_profile's assignment to self.scicrunch_api_key.
StoreKey(keys, i, api_key) == [keys EXCEPT ![i] = api_key]

----------------------------------------------------------------------------
\* The record of the most recent operation.

NetOps == {"getURL", "postURL", "list_datasets", "search_datasets"}

Op(op, i) ==
    [op |-> op, inst |-> i, arg |-> None, key |-> None, limit |-> 0, offset |-> 0,
     query |-> NoQuery, before |-> <<>>] @@ [Progress(NoRequest, <<>>) EXCEPT !.status = "returned"]

\* Operation op of instance i, which called getURL or postURL, now at p;
\* before is what the client held when it was called.
Calling(op, i, p) ==
    [op |-> op, inst |-> i, arg |-> None, key |-> None, limit |-> 0, offset |-> 0,
     query |-> NoQuery, before |-> ClientState] @@ p

\* The progress fields of the operation under way.
Under == [f \in DOMAIN Progress(NoRequest, <<>>) |-> call[f]]

\* Calls are synchronous: an operation starts when none is under way.
Idle == call.status # "sending"

----------------------------------------------------------------------------
\* Inputs.

Keys == {"", "key-1"}

ProfileName == "default"

Configs == {NoConfig} \cup {Config(k, ProfileName) : k \in Keys}

Args == {0 - MaxArg, 0, 7, MaxArg}

TestApi == <<"https://", "api.", "pennsieve", ".io", "/discover/search">>

PlainHttpUrl == <<"http://", "localhost:9200", "/_search">>

NoAdapterUrl == <<"ftp://", "api.scicrunch.io", "/elastic/v1">>

SearchUrls == {AlgoliaApi, TestApi}

Urls == {AlgoliaApi, PlainHttpUrl, NoAdapterUrl}

HitsBody == <<"{", "hits", ":", "{", "total", ":", "{", "}", "}", "}">>

HtmlBody == <<"<html>", "denied", "</html>">>

TermQuery ==
    <<"{", "query", ":", "{", "term", ":", "{", "}", "}", ",", "size", ":", "{", "}", "}">>

TermObject == << <<"query", << <<"term", <<>> >> >> >>, <<"size", <<>> >> >>

BrokenQuery == <<"{", "query", ":">>

Bodies == {BodyDict(TermObject), BodyStr(TermQuery), BodyStr(DefaultQuery),
           BodyStr(BrokenQuery), BodyStr(<<>>)}

Queries == {NoQuery} \cup {Query(b) : b \in Bodies}

CustomHeaders == [h \in {"Accept"} |-> "text/plain"]

HeaderArgs == {NoHeaders, Headers(CustomHeaders)}

Errors == {Outcome(k, 0, <<>>) : k \in ConnectErrors \cup ReadErrors}

Statuses == {200, 401, 403} \cup StatusForcelist

Responses == {Outcome("response", st, b) : st \in Statuses, b \in {HitsBody, HtmlBody}}

Outcomes == Responses \cup Errors

\* The outcomes tried where the client's state, not the retry policy, is at
\* stake.
FewOutcomes == {Outcome("response", 200, HitsBody), Outcome("response", 401, HtmlBody),
                Outcome("connect_error", 0, <<>>)}

----------------------------------------------------------------------------
\* State and operations.

\* __init__, once per instance; the class attributes are as the class
\* statement leaves them.
Init ==
    \E cfg \in [Instances -> Configs] :
        /\ scicrunch_api_key = [i \in Instances |-> cfg[i].scicrunch_api_key]
        /\ profile_name = [i \in Instances |-> cfg[i].pennsieve_profile_name]
        /\ host_api = [i \in Instances |-> HostApi]
        /\ algolia_api = [i \in Instances |-> AlgoliaApi]
        /\ es_success = [i \in Instances |-> Unset]
        /\ default_headers = ClassHeaders
        /\ given_key = [i \in Instances |-> cfg[i].scicrunch_api_key]
        /\ call = Op("construct", CHOOSE i \in Instances : TRUE)

GetProfile(i) ==
    /\ Idle
    /\ call' = [Op("get_profile", i) EXCEPT !.key = scicrunch_api_key[i],
                                             !.before = ClientState]
    /\ UNCHANGED <<ClientState, given_key>>

SetProfile(i, api_key) ==
    /\ Idle
    /\ scicrunch_api_key' = StoreKey(scicrunch_api_key, i, api_key)
    /\ given_key' = [given_key EXCEPT ![i] = api_key]
    /\ call' = [Op("set_profile", i) EXCEPT !.arg = api_key, !.key = scicrunch_api_key'[i]]
    /\ UNCHANGED <<profile_name, host_api, algolia_api, es_success, default_headers>>

\* A test pointing an instance at another search endpoint (the attribute is
\* public; list_datasets has a branch for it).
PatchSearchURL(i, url) ==
    /\ Idle
    /\ algolia_api[i] # url
    /\ algolia_api' = [algolia_api EXCEPT ![i] = url]
    /\ call' = Op("patch", i)
    /\ UNCHANGED <<given_key, scicrunch_api_key, profile_name, host_api, es_success, default_headers>>

GetURL(i, url, headers) ==
    LET p == GetURLCall(url, headers) IN
    /\ Idle
    /\ es_success' = [es_success EXCEPT ![i] = p.es]
    /\ call' = Calling("getURL", i, p)
    /\ UNCHANGED <<given_key, scicrunch_api_key, profile_name, host_api, algolia_api, default_headers>>

PostURL(i, url, body, headers) ==
    LET p == PostURLCall(url, body, headers) IN
    /\ Idle
    /\ es_success' = [es_success EXCEPT ![i] = p.es]
    /\ call' = [Calling("postURL", i, p) EXCEPT !.query = Query(body)]
    /\ UNCHANGED <<given_key, scicrunch_api_key, profile_name, host_api, algolia_api, default_headers>>

ListDatasets(i, limit, offset) ==
    LET request_headers == RequestHeaders(default_headers, scicrunch_api_key[i])
        list_url == ListUrl(algolia_api[i], limit, offset)
        p == GetURLCall(list_url, Headers(request_headers))
    IN
    /\ Idle
    /\ default_headers' = request_headers
    /\ es_success' = [es_success EXCEPT ![i] = p.es]
    /\ call' = [Calling("list_datasets", i, p) EXCEPT !.limit = limit, !.offset = offset]
    /\ UNCHANGED <<given_key, scicrunch_api_key, profile_name, host_api, algolia_api>>

SearchDatasets(i, query) ==
    LET request_headers == RequestHeaders(default_headers, scicrunch_api_key[i])
        p == PostURLCall(algolia_api[i], QueryBody(query), Headers(request_headers))
    IN
    /\ Idle
    /\ default_headers' = request_headers
    /\ es_success' = [es_success EXCEPT ![i] = p.es]
    /\ call' = [Calling("search_datasets", i, p) EXCEPT !.query = query]
    /\ UNCHANGED <<given_key, scicrunch_api_key, profile_name, host_api, algolia_api>>

\* The remote end answers the outstanding request; the session sends it
\* again or the call ends and the operation returns or raises.
Transport(o) ==
    /\ call.status = "sending"
    /\ LET p == Answer(Under, o) IN
        /\ call' = p @@ call
        /\ es_success' = [es_success EXCEPT ![call.inst] = p.es]
    /\ UNCHANGED <<given_key, scicrunch_api_key, profile_name, host_api, algolia_api, default_headers>>

\* The client as a whole.
Next ==
    \/ \E i \in Instances : GetProfile(i)
    \/ \E i \in Instances, k \in Keys \cup {None} : SetProfile(i, k)
    \/ \E i \in Instances : GetURL(i, AlgoliaApi, NoHeaders)
    \/ \E i \in Instances : PostURL(i, AlgoliaApi, BodyStr(TermQuery), NoHeaders)
    \/ \E i \in Instances : ListDatasets(i, 10, 0)
    \/ \E i \in Instances : SearchDatasets(i, NoQuery)
    \/ \E o \in FewOutcomes : Transport(o)

Spec == Init /\ [][Next]_vars

\* Both instances constructed with a configured key.
InitConfigured ==
    /\ Init
    /\ \A i \in Instances : scicrunch_api_key[i] = "key-1"

\* Listing and searching, with every argument.
NextSearch ==
    \/ \E i \in Instances, u \in SearchUrls : PatchSearchURL(i, u)
    \/ \E i \in Instances, l \in Args, o \in Args : ListDatasets(i, l, o)
    \/ \E i \in Instances, q \in Queries : SearchDatasets(i, q)
    \/ \E o \in FewOutcomes : Transport(o)

SpecSearch == InitConfigured /\ [][NextSearch]_vars

\* getURL and postURL, with every URL, body and transport outcome: the retry
\* policy and the error paths.
NextRetry ==
    \/ \E i \in Instances, u \in Urls, h \in HeaderArgs : GetURL(i, u, h)
    \/ \E i \in Instances, u \in Urls, b \in Bodies, h \in HeaderArgs : PostURL(i, u, b, h)
    \/ \E o \in Outcomes : Transport(o)

SpecRetry == InitConfigured /\ [][NextRetry]_vars

----------------------------------------------------------------------------
\* Properties.

Terminal == call.status # "sending"

\* The exceptions of requests a session call can end with.
NetworkFailures ==
    {"HTTPError", "ConnectionError", "ConnectTimeout", "ReadTimeout", "RetryError",
     "InvalidSchema"}

OnForcelist(o) == o.kind = "response" /\ o.status \in {404, 413, 429, 500, 502, 503, 504}

RECURSIVE Dumps(_)
RECURSIVE DumpMembers(_, _)
\* The text of a JSON object.
Dumps(v) == <<"{">> \o DumpMembers(v, 1) \o <<"}">>

DumpMembers(v, n) ==
    IF n > Len(v) THEN <<>>
    ELSE (IF n > 1 THEN <<",">> ELSE <<>>)
         \o <<v[n][1], ":">> \o Dumps(v[n][2]) \o DumpMembers(v, n + 1)

DigitValue(c) == CHOOSE d \in 0..9 : Digit[d + 1] = c

IsNumeral(ds) == Len(ds) > 0 /\ \A n \in DOMAIN ds : \E d \in 0..9 : Digit[d + 1] = ds[n]

RECURSIVE NumeralValue(_)
NumeralValue(ds) ==
    IF Len(ds) = 0 THEN 0
    ELSE 10 * NumeralValue(SubSeq(ds, 1, Len(ds) - 1)) + DigitValue(ds[Len(ds)])

\* ds is the decimal text of the integer n.
Denotes(ds, n) ==
    /\ Len(ds) > 0
    /\ IF ds[1] = "-"
       THEN IsNumeral(Tail(ds)) /\ 0 - NumeralValue(Tail(ds)) = n
       ELSE IsNumeral(ds) /\ NumeralValue(ds) = n

\* What an operation that returned gave back, against what the transport
\* did: the JSON of the response it ended with, or {} after a caught error.
ReturnsWhatCallGot ==
    (Terminal /\ call.status = "returned") =>
        IF call.err = "" THEN Dumps(call.result) = call.last.body
        ELSE call.result = <<>>

\* C1: getURL, and postURL with a well-formed body, whose HTTP call ends in
\* an exception of requests (retries exhausted, connection error, timeout,
\* any other request exception) return {} and let no exception out, after
\* logging; for every URL and headers argument.
C1_NetworkFailureReturnsEmpty ==
    (call.op \in {"getURL", "postURL"} /\ Terminal /\ call.err \in NetworkFailures) =>
        /\ call.status = "returned"
        /\ call.exc = ""
        /\ call.result = <<>>
        /\ Len(call.logs) = 1

C1_Witness ==
    /\ call.op = "postURL"
    /\ Terminal
    /\ call.err = "ConnectionError"
    /\ call.sent = 7
    /\ call.req.headers.given
    /\ call.result = <<>>

\* C2: postURL (and search_datasets through it) with a body that is neither
\* a dict nor a string that parses as JSON does not raise: the failure is
\* logged and the call returns {}.
C2_MalformedBodyReturnsEmpty ==
    (/\ call.op \in {"postURL", "search_datasets"}
     /\ Terminal
     /\ ~QueryBody(call.query).isDict
     /\ ~Loads(QueryBody(call.query).toks).ok) =>
        /\ call.status = "returned"
        /\ call.exc = ""
        /\ call.result = <<>>
        /\ BodyLog \in {call.logs[n] : n \in DOMAIN call.logs}

\* C3: a response with an error status outside the retry set (401, 403) is
\* not retried, and the call returns {} with nothing raised (stated for the
\* https:// URLs of the service).
C3_UnretriedStatusReturnsEmpty ==
    (/\ call.op \in {"getURL", "postURL"}
     /\ call.sent > 0
     /\ call.req.url[1] = "https://"
     /\ call.last.kind = "response"
     /\ call.last.status \in {401, 403}) =>
        /\ Terminal
        /\ call.status = "returned"
        /\ call.exc = ""
        /\ call.result = <<>>

\* C4: list_datasets(limit, offset) makes a GET of the search URL followed
\* by ?from=<offset>&size=<limit>, or of the bare search URL when that
\* contains the test-backend marker, and returns what the GET call gives.
C4_ListUrl ==
    call.op = "list_datasets" =>
        LET api == algolia_api[call.inst]
            url == call.req.url
            rest == SubSeq(url, Len(api) + 1, Len(url))
        IN
        /\ call.req.method = "GET"
        /\ SubSeq(url, 1, Len(api)) = api
        /\ IF \E n \in DOMAIN api : api[n] = "pennsieve"
           THEN rest = <<>>
           ELSE \E n \in 4..(Len(rest) - 1) :
                    /\ rest[1] = "?"
                    /\ rest[2] = "from="
                    /\ Denotes(SubSeq(rest, 3, n - 1), call.offset)
                    /\ rest[n] = "&size="
                    /\ Denotes(SubSeq(rest, n + 1, Len(rest)), call.limit)
        /\ ReturnsWhatCallGot

C4_Witness ==
    /\ call.op = "list_datasets"
    /\ call.limit = 7
    /\ call.offset = 0 - MaxArg
    /\ algolia_api[call.inst] = AlgoliaApi
    /\ Terminal
    /\ call.err = ""
    /\ call.result # <<>>

\* C5: a getURL whose first 5 requests are answered with statuses of the
\* retry set does not give up before the 6th, and when the 6th is answered
\* 200 with a JSON body it returns that body.
C5_SucceedsOnSixthAttempt ==
    (/\ call.op = "getURL"
     /\ call.req.url[1] = "https://"
     /\ call.prior
     /\ Terminal) =>
        /\ OnForcelist(call.last) => call.sent > 5
        /\ (/\ call.sent = 6
            /\ call.last.kind = "response"
            /\ call.last.status = 200
            /\ call.last.body = HitsBody) =>
                /\ call.status = "returned"
                /\ call.result # <<>>
                /\ Dumps(call.result) = call.last.body

C5_Witness ==
    /\ call.op = "getURL"
    /\ call.prior
    /\ call.sent = 6
    /\ call.last = Outcome("response", 200, HitsBody)
    /\ call.status = "returned"
    /\ call.result # <<>>

C7_KeyRoundTrip ==
    /\ call.op = "set_profile" => call.key = call.arg
    /\ call.op = "get_profile" =>
          /\ call.key = given_key[call.inst]
          /\ ClientState = call.before

C7_Witness ==
    /\ call.op = "get_profile"
    /\ call.inst = "a"
    /\ call.key = ""
    /\ given_key["b"] = "key-1"
    /\ es_success["a"] = 0
    /\ "apikey" \in DOMAIN default_headers
    /\ default_headers["apikey"] = "key-1"

\* C8: search_datasets() POSTs {"query": {"match_all": {}}} to the search
\* URL; search_datasets(query) POSTs the query, parsed if it is a string;
\* either returns what the POST call gives.
C8_SearchBody ==
    (call.op = "search_datasets" /\ call.sent > 0) =>
        /\ call.req.method = "POST"
        /\ call.req.url = algolia_api[call.inst]
        /\ call.req.json.bound
        /\ IF ~call.query.given
           THEN call.req.json.val = << <<"query", << <<"match_all", <<>> >> >> >> >>
           ELSE IF call.query.body.isDict
           THEN call.req.json.val = call.query.body.val
           ELSE Dumps(call.req.json.val) = call.query.body.toks
        /\ ReturnsWhatCallGot

C8_Witness ==
    /\ call.op = "search_datasets"
    /\ ~call.query.given
    /\ call.sent = 1
    /\ Terminal
    /\ call.err = ""
    /\ call.result # <<>>

\* C9: getURL, postURL, list_datasets and search_datasets leave what the
\* client holds as it was when they were called: the key, the profile name,
\* the two URLs and the default header map (stated for these, the attributes
\* the class declares; es_success, which the calls themselves create, aside).
C9_CallsLeaveClientUnchanged ==
    (call.op \in NetOps /\ Terminal) =>
        /\ scicrunch_api_key = call.before[1]
        /\ profile_name = call.before[2]
        /\ host_api = call.before[3]
        /\ algolia_api = call.before[4]
        /\ default_headers = call.before[6]

\* C10: every request of list_datasets and search_datasets carries exactly
\* Content-Type, Accept and apikey, and apikey is the key of the instance the
\* call was made on.
C10_RequestCarriesOwnKey ==
    (call.op \in {"list_datasets", "search_datasets"} /\ call.sent > 0) =>
        /\ call.req.headers.given
        /\ DOMAIN call.req.headers.map = {"Content-Type", "Accept", "apikey"}
        /\ call.req.headers.map["apikey"] = scicrunch_api_key[call.inst]
        /\ call.req.headers.map["Content-Type"] = "application/json"
        /\ call.req.headers.map["Accept"] = "application/json; charset=utf-8"

C10_Witness ==
    /\ call.op = "list_datasets"
    /\ call.inst = "b"
    /\ call.sent > 0
    /\ scicrunch_api_key["a"] = ""
    /\ scicrunch_api_key["b"] = "key-1"
    /\ "apikey" \in DOMAIN call.before[6]
    /\ call.before[6]["apikey"] = ""
    /\ call.req.headers.map["apikey"] = "key-1"

====
